---- MODULE Spec2Model ----
(***************************************************************************)
(* Double-page filename detection and renaming of the comic archive tool   *)
(* (double_page_fixing.py).  A filename is a sequence of one-character     *)
(* strings.  The two regular expressions of ArchiveHandler.__init__ are    *)
(* evaluated position by position, as re.search does: leftmost match       *)
(* first, alternatives in the order the pattern lists them.                *)
(***************************************************************************)
EXTENDS Integers, Sequences, FiniteSets, TLC

\* one entry name on its way through detection and suggestion
VARIABLES filename, nparts, pc, number_match, new_name

\* one archive on its way through process_archive
VARIABLES kind, namelist, apc, files_dict

name_vars == <<filename, nparts, pc, number_match, new_name>>

archive_vars == <<kind, namelist, apc, files_dict>>

\* what process_archive was asked to change in the archive
VARIABLES auto_mode, files_to_rename, files_to_delete, command

request_vars == <<auto_mode, files_to_rename, files_to_delete, command>>

\* one rewrite of the archive by _process_zip or _process_rar
VARIABLES next_member, temp_dir, temp_files, original, written, outcome, logged

rewrite_vars ==
    <<next_member, temp_dir, temp_files, original, written, outcome, logged>>

\* one comparison of four file lists by compare_json_files
VARIABLES mine_list, first_entries, second_entries, third_entries, result, cpc

compare_vars == <<mine_list, first_entries, second_entries, third_entries, result, cpc>>

\* one search of find_file_path on its pool of worker threads
VARIABLES found, task, finished, next_result, path, fpc

find_vars == <<found, task, finished, next_result, path, fpc>>

\* everything but the variables of one entry name
name_frame == <<archive_vars, request_vars, rewrite_vars, compare_vars, find_vars>>

\* everything but the variables of one archive
archive_frame == <<name_vars, compare_vars, find_vars>>

\* everything but the variables of one comparison
compare_frame == <<name_vars, archive_vars, request_vars, rewrite_vars, find_vars>>

\* everything but the variables of one search
find_frame == <<name_vars, archive_vars, request_vars, rewrite_vars, compare_vars>>

vars == <<name_vars, archive_vars, request_vars, rewrite_vars, compare_vars, find_vars>>

(***************************************************************************)
(* Bounds of the model and constants of the program.                       *)
(***************************************************************************)
\* how many pieces an entry name is put together from
MaxParts == 3

\* \d{3} in connected_number_pattern
ConnectedWidth == 3

\* \d{2} in double_number_pattern
DoubleWidth == 2

\* Python's None
None == <<>>

(***************************************************************************)
(* Character classes of the patterns.                                      *)
(***************************************************************************)
\* \d
Digits == {"0", "1", "2", "3", "4", "5", "6", "7", "8", "9"}

\* a plausible slip: the ampersand left out of the character class
SeparatorsWithoutAmpersand == {"-", "+"}

\* [-+&]
Separators == {"-", "+", "&"}

UpperLetters == <<"A", "B", "C", "D", "E", "F", "G", "H", "I", "J", "K", "L", "M",
                  "N", "O", "P", "Q", "R", "S", "T", "U", "V", "W", "X", "Y", "Z">>

LowerLetters == <<"a", "b", "c", "d", "e", "f", "g", "h", "i", "j", "k", "l", "m",
                  "n", "o", "p", "q", "r", "s", "t", "u", "v", "w", "x", "y", "z">>

\* case folding of re.IGNORECASE / (?i:...)
ToLower(c) ==
    IF \E k \in 1..26 : UpperLetters[k] = c
    THEN LowerLetters[CHOOSE k \in 1..26 : UpperLetters[k] = c]
    ELSE c

\* the alternatives of \.(?i:jpe?g|png) in the order the regex engine tries
\* them: "e?" is greedy, so .jpeg comes before .jpg, and jpe?g before png
ExtensionAlternatives ==
    << <<".", "j", "p", "e", "g">>, <<".", "j", "p", "g">>, <<".", "p", "n", "g">> >>

\* the literal w (lower case) matches s at position i, ignoring case
LiteralAt(s, i, w) ==
    /\ i >= 1
    /\ i + Len(w) - 1 <= Len(s)
    /\ \A k \in 1..Len(w) : ToLower(s[i + k - 1]) = w[k]

\* "$" without re.MULTILINE: at the end of the string, or just before a
\* line feed that ends the string.  j is the position after the match.
EndOfString(s, j) ==
    \/ j = Len(s) + 1
    \/ (j = Len(s) /\ s[j] = "\n")

\* length of the match of \.(?i:jpe?g|png) at position i of s (0: no match);
\* with anchored, the pattern is followed by "$"
ExtensionLenAt(s, i, anchored) ==
    LET ok(k) == /\ LiteralAt(s, i, ExtensionAlternatives[k])
                 /\ (anchored => EndOfString(s, i + Len(ExtensionAlternatives[k])))
    IN  IF i > Len(s) \/ s[i] # "." THEN 0
        ELSE IF ok(1) THEN Len(ExtensionAlternatives[1])
        ELSE IF ok(2) THEN Len(ExtensionAlternatives[2])
        ELSE IF ok(3) THEN Len(ExtensionAlternatives[3])
        ELSE 0

\* w digits at positions i .. i+w-1
DigitsAt(s, i, w) ==
    /\ i + w - 1 <= Len(s)
    /\ \A k \in 0..(w - 1) : s[i + k] \in Digits

(***************************************************************************)
(* The two patterns, matched at one position i (1-based).                  *)
(***************************************************************************)
\* [-+&](\d{3})[-+&](\d{3})\.(?i:jpe?g|png)
connected_number_pattern(s, i) ==
    /\ i + 2 * ConnectedWidth + 1 <= Len(s)
    /\ s[i] \in Separators
    /\ DigitsAt(s, i + 1, ConnectedWidth)
    /\ s[i + ConnectedWidth + 1] \in Separators
    /\ DigitsAt(s, i + ConnectedWidth + 2, ConnectedWidth)
    /\ ExtensionLenAt(s, i + 2 * ConnectedWidth + 2, FALSE) > 0

\* [-+&](\d{2})(\d{2})\.(?i:jpe?g|png)
double_number_pattern(s, i) ==
    /\ i + 2 * DoubleWidth <= Len(s)
    /\ s[i] \in Separators
    /\ DigitsAt(s, i + 1, DoubleWidth)
    /\ DigitsAt(s, i + DoubleWidth + 1, DoubleWidth)
    /\ ExtensionLenAt(s, i + 2 * DoubleWidth + 1, FALSE) > 0

\* pattern.search(filename) scans the positions from the left: the first
\* position from i on where the pattern matches, as match.start()
\* (0-based); -1 when there is no match
RECURSIVE connected_scan(_, _)
connected_scan(s, i) ==
    IF i > Len(s) THEN -1
    ELSE IF connected_number_pattern(s, i) THEN i - 1
    ELSE connected_scan(s, i + 1)

RECURSIVE double_scan(_, _)
double_scan(s, i) ==
    IF i > Len(s) THEN -1
    ELSE IF double_number_pattern(s, i) THEN i - 1
    ELSE double_scan(s, i + 1)

\* self.connected_number_pattern.search(filename)
connected_search(s) == connected_scan(s, 1)

\* self.double_number_pattern.search(filename)
double_search(s) == double_scan(s, 1)

\* a plausible slip: the prefix cut one character late, separator included
connected_result_keeps_separator(s, start) ==
    << SubSeq(s, 1, start + 1),
       SubSeq(s, start + 2, start + 1 + ConnectedWidth),
       SubSeq(s, start + ConnectedWidth + 3, start + 2 * ConnectedWidth + 2) >>

\* the branch of find_double_numbers for a connected match at start
connected_result(s, start) ==
    << SubSeq(s, 1, start),
       SubSeq(s, start + 2, start + 1 + ConnectedWidth),
       SubSeq(s, start + ConnectedWidth + 3, start + 2 * ConnectedWidth + 2) >>

\* a plausible slip: the four digits split after the first digit
double_result_uneven(s, start) ==
    << SubSeq(s, 1, start),
       SubSeq(s, start + 2, start + DoubleWidth),
       SubSeq(s, start + DoubleWidth + 1, start + 1 + 2 * DoubleWidth) >>

\* the branch of find_double_numbers for a four-digit match at start
double_result(s, start) ==
    << SubSeq(s, 1, start),
       SubSeq(s, start + 2, start + 1 + DoubleWidth),
       SubSeq(s, start + DoubleWidth + 2, start + 1 + 2 * DoubleWidth) >>

\* a plausible slip: the four-digit pattern tried first
find_double_numbers_double_first(s) ==
    LET second == double_search(s)
        first == connected_search(s)
    IN  IF second >= 0 THEN double_result(s, second)
        ELSE IF first >= 0 THEN connected_result(s, first)
        ELSE None

\* ArchiveHandler.find_double_numbers
find_double_numbers(s) ==
    LET first == connected_search(s)
        second == double_search(s)
    IN  IF first >= 0 THEN connected_result(s, first)
        ELSE IF second >= 0 THEN double_result(s, second)
        ELSE None

\* str.replace('-', '_')
replace_hyphens(s) ==
    [k \in 1..Len(s) |-> IF s[k] = "-" THEN "_" ELSE s[k]]

RECURSIVE extension_scan(_, _)
extension_scan(s, i) ==
    IF i > Len(s) THEN -1
    ELSE IF ExtensionLenAt(s, i, TRUE) > 0 THEN i - 1
    ELSE extension_scan(s, i + 1)

\* re.search(r'\.(?i:jpe?g|png)$', filename): match.start() of the leftmost
\* match (0-based), -1 when there is none
extension_search(s) == extension_scan(s, 1)

\* ext_match.group(0) if ext_match else ''
original_ext(s) ==
    LET start == extension_search(s)
    IN  IF start >= 0
        THEN SubSeq(s, start + 1, start + ExtensionLenAt(s, start + 1, TRUE))
        ELSE <<>>

\* a plausible slip: the extension lower-cased on the way
suggest_new_name_lower_ext(s, m) ==
    replace_hyphens(m[1]) \o <<"_">> \o m[2] \o <<"-">> \o m[3]
        \o [k \in 1..Len(original_ext(s)) |-> ToLower(original_ext(s)[k])]

\* a plausible slip: every word separator of the prefix normalised, spaces too
suggest_new_name_spaces(s, m) ==
    [k \in 1..Len(m[1]) |-> IF m[1][k] \in {"-", " "} THEN "_" ELSE m[1][k]]
        \o <<"_">> \o m[2] \o <<"-">> \o m[3] \o original_ext(s)

\* ArchiveHandler.suggest_new_name; m is (prefix, first_num, second_num)
suggest_new_name(s, m) ==
    replace_hyphens(m[1]) \o <<"_">> \o m[2] \o <<"-">> \o m[3] \o original_ext(s)

(***************************************************************************)
(* Entry names.  A name is put together from at most MaxParts pieces:      *)
(* plain text, a span of the connected form, a span of the four-digit      *)
(* form.                                                                   *)
(***************************************************************************)
Texts ==
    { <<"G", "L", "5", "7">>,
      <<"G", "r", "e", "e", "n", " ", "L", "a", "n", "t", "e", "r", "n", " ", "0", "3", "1">>,
      <<"0", "2", "3">>,
      <<"c", "o", "v", "e", "r">>,
      <<"a", "+", "b", " ", "&", " ", "c", "-", "d">>,
      <<"-">>,
      <<"\n">>,
      <<".", "j", "p", "g">>,
      <<"-", "1", "2", "3", "4", "5", ".", "j", "p", "g">>,
      <<".", "b", "a", "k">> }

\* <<separator, digits, separator, digits, extension>>
ConnectedForms ==
    { <<<<"-">>, <<"0", "2", "0">>, <<"+">>, <<"0", "2", "1">>, <<".", "j", "p", "g">>>>,
      <<<<"+">>, <<"0", "3", "3">>, <<"&">>, <<"0", "3", "4">>, <<".", "J", "P", "G">>>>,
      <<<<"&">>, <<"0", "0", "6">>, <<"-">>, <<"0", "0", "7">>, <<".", "j", "p", "e", "g">>>> }

\* <<separator, digits, extension>>
DoubleForms ==
    { <<<<"-">>, <<"1", "2", "1", "3">>, <<".", "j", "p", "g">>>>,
      <<<<"-">>, <<"0", "8", "0", "9">>, <<".", "J", "P", "G">>>>,
      <<<<"+">>, <<"1", "2", "1", "3">>, <<".", "P", "n", "g">>>>,
      <<<<"&">>, <<"1", "2", "1", "3">>, <<".", "J", "p", "E", "g">>>> }

\* no archive is being processed
ArchiveIdle ==
    /\ kind = "zip"
    /\ namelist = <<>>
    /\ apc = "idle"
    /\ files_dict = <<>>

\* nothing was asked of process_archive
RequestIdle ==
    /\ auto_mode = FALSE
    /\ files_to_rename = <<>>
    /\ files_to_delete = {}
    /\ command = <<>>

\* no file lists are being compared
CompareIdle ==
    /\ mine_list = <<>>
    /\ first_entries = {}
    /\ second_entries = {}
    /\ third_entries = {}
    /\ result = <<>>
    /\ cpc = "idle"

\* no file is being searched
FindIdle ==
    /\ found = <<>>
    /\ task = <<>>
    /\ finished = <<>>
    /\ next_result = 0
    /\ path = <<>>
    /\ fpc = "idle"

\* no archive is being rewritten
RewriteIdle ==
    /\ next_member = 0
    /\ temp_dir = "none"
    /\ temp_files = {}
    /\ original = "intact"
    /\ written = {}
    /\ outcome = "none"
    /\ logged = {}

Init ==
    /\ filename = <<>>
    /\ nparts = 0
    /\ pc = "name"
    /\ number_match = None
    /\ new_name = <<>>
    /\ ArchiveIdle
    /\ RequestIdle
    /\ RewriteIdle
    /\ CompareIdle
    /\ FindIdle

AppendText(t) ==
    /\ pc = "name"
    /\ nparts < MaxParts
    /\ filename' = filename \o t
    /\ nparts' = nparts + 1
    /\ UNCHANGED <<pc, number_match, new_name, name_frame>>

AppendConnected(f) ==
    /\ pc = "name"
    /\ nparts < MaxParts
    /\ filename' = filename \o f[1] \o f[2] \o f[3] \o f[4] \o f[5]
    /\ nparts' = nparts + 1
    /\ UNCHANGED <<pc, number_match, new_name, name_frame>>

AppendDouble(f) ==
    /\ pc = "name"
    /\ nparts < MaxParts
    /\ filename' = filename \o f[1] \o f[2] \o f[3]
    /\ nparts' = nparts + 1
    /\ UNCHANGED <<pc, number_match, new_name, name_frame>>

\* process_archive: number_match = self.find_double_numbers(filename)
Detect ==
    /\ pc = "name"
    /\ number_match' = find_double_numbers(filename)
    /\ pc' = "detected"
    /\ UNCHANGED <<filename, nparts, new_name, name_frame>>

\* process_archive: if number_match: new_name = self.suggest_new_name(...)
Suggest ==
    /\ pc = "detected"
    /\ number_match # None
    /\ new_name' = suggest_new_name(filename, number_match)
    /\ pc' = "suggested"
    /\ UNCHANGED <<filename, nparts, number_match, name_frame>>

Next ==
    \/ \E t \in Texts : AppendText(t)
    \/ \E f \in ConnectedForms : AppendConnected(f)
    \/ \E f \in DoubleForms : AppendDouble(f)
    \/ Detect
    \/ Suggest

Spec == Init /\ [][Next]_vars

(***************************************************************************)
(* Vocabulary of the properties, written from the wording of the           *)
(* specification and independent of the operators above.                   *)
(***************************************************************************)
SeparatorCharacters == {"-", "+", "&"}

DigitCharacters == {"0", "1", "2", "3", "4", "5", "6", "7", "8", "9"}

ExtensionNames ==
    { <<".", "j", "p", "g">>, <<".", "j", "p", "e", "g">>, <<".", "p", "n", "g">> }

BothCases(c) ==
    CASE c = "j" -> {"j", "J"}
      [] c = "p" -> {"p", "P"}
      [] c = "e" -> {"e", "E"}
      [] c = "g" -> {"g", "G"}
      [] c = "n" -> {"n", "N"}
      [] OTHER -> {c}

\* e is .jpg, .jpeg or .png in some letter case
IsExtensionText(e) ==
    \E w \in ExtensionNames :
        /\ Len(e) = Len(w)
        /\ \A k \in 1..Len(w) : e[k] \in BothCases(w[k])

AllDigits(d) == \A k \in 1..Len(d) : d[k] \in DigitCharacters

\* the extension text that starts at position i of s, <<>> when there is none
ExtensionTextAt(s, i) ==
    IF i < 1 \/ i > Len(s) \/ s[i] # "." THEN <<>>
    ELSE IF i + 4 <= Len(s) /\ IsExtensionText(SubSeq(s, i, i + 4)) THEN SubSeq(s, i, i + 4)
    ELSE IF i + 3 <= Len(s) /\ IsExtensionText(SubSeq(s, i, i + 3)) THEN SubSeq(s, i, i + 3)
    ELSE <<>>

\* separator, 3 digits, separator, 3 digits, extension, from position i on
ConnectedSpanAt(s, i) ==
    /\ i >= 1
    /\ i + 7 <= Len(s)
    /\ s[i] \in SeparatorCharacters
    /\ s[i + 4] \in SeparatorCharacters
    /\ AllDigits(SubSeq(s, i + 1, i + 3))
    /\ AllDigits(SubSeq(s, i + 5, i + 7))
    /\ ExtensionTextAt(s, i + 8) # <<>>

\* separator, 4 digits, extension, from position i on
ConcatenatedSpanAt(s, i) ==
    /\ i >= 1
    /\ i + 4 <= Len(s)
    /\ s[i] \in SeparatorCharacters
    /\ AllDigits(SubSeq(s, i + 1, i + 4))
    /\ ExtensionTextAt(s, i + 5) # <<>>

ConnectedSpans(s) == {i \in 1..Len(s) : ConnectedSpanAt(s, i)}

ConcatenatedSpans(s) == {i \in 1..Len(s) : ConcatenatedSpanAt(s, i)}

Least(S) == CHOOSE x \in S : \A y \in S : x <= y

\* prefix and numbers of the connected span that starts at position i
ConnectedParts(s, i) ==
    << SubSeq(s, 1, i - 1), SubSeq(s, i + 1, i + 3), SubSeq(s, i + 5, i + 7) >>

\* prefix and numbers of the four-digit span that starts at position i
ConcatenatedParts(s, i) ==
    << SubSeq(s, 1, i - 1), SubSeq(s, i + 1, i + 2), SubSeq(s, i + 3, i + 4) >>

\* the span the detection is about: the first connected span when there is
\* one, else the first four-digit span; 0 when the name has neither
DetectedSpan(s) ==
    IF ConnectedSpans(s) # {} THEN Least(ConnectedSpans(s))
    ELSE IF ConcatenatedSpans(s) # {} THEN Least(ConcatenatedSpans(s))
    ELSE 0

\* the extension text the detected span ends with
DetectedExtension(s) ==
    IF ConnectedSpans(s) # {} THEN ExtensionTextAt(s, DetectedSpan(s) + 8)
    ELSE IF ConcatenatedSpans(s) # {} THEN ExtensionTextAt(s, DetectedSpan(s) + 5)
    ELSE <<>>

EndsWith(s, e) ==
    /\ Len(e) <= Len(s)
    /\ SubSeq(s, Len(s) - Len(e) + 1, Len(s)) = e

Detected == pc \in {"detected", "suggested"}

Matched == Detected /\ number_match # None

(***************************************************************************)
(* C1.  A filename that holds both a connected-numbers span and a          *)
(* concatenated-digits span is reported with the prefix and numbers of the *)
(* (first) connected-numbers span, wherever the concatenated span lies.    *)
(***************************************************************************)
C1_ConnectedRuleWins ==
    (Detected /\ ConnectedSpans(filename) # {} /\ ConcatenatedSpans(filename) # {})
        => number_match = ConnectedParts(filename, Least(ConnectedSpans(filename)))

\* both spans present, the four-digit one further to the left
C1_Witness ==
    /\ Matched
    /\ ConnectedSpans(filename) # {}
    /\ ConcatenatedSpans(filename) # {}
    /\ Least(ConcatenatedSpans(filename)) < Least(ConnectedSpans(filename))

(***************************************************************************)
(* C2.  As claimed: the concatenated rule takes a run of twice the width   *)
(* of the connected rule, so every returned number has that one width.     *)
(***************************************************************************)
C2_OneWidthForBothRules ==
    Matched => /\ Len(number_match[2]) = 3
               /\ Len(number_match[3]) = 3

(***************************************************************************)
(* C2, amended.  The connected rule returns two 3-digit numbers; the       *)
(* concatenated rule takes a run of exactly four digits and returns its    *)
(* two 2-digit halves.  The two numbers of one result have the same width. *)
(***************************************************************************)
C2_WidthPerRule ==
    Matched =>
        /\ ConnectedSpans(filename) # {}
               => Len(number_match[2]) = 3 /\ Len(number_match[3]) = 3
        /\ ConnectedSpans(filename) = {}
               => /\ Len(number_match[2]) = 2 /\ Len(number_match[3]) = 2
                  /\ ConcatenatedSpanAt(filename, Len(number_match[1]) + 1)
                  /\ number_match[2] \o number_match[3]
                         = SubSeq(filename, Len(number_match[1]) + 2,
                                  Len(number_match[1]) + 5)

\* the concatenated rule fired
C2_Witness ==
    /\ Matched
    /\ ConnectedSpans(filename) = {}
    /\ Len(number_match[2]) = 2

(***************************************************************************)
(* C3.  When the connected rule matches, the matched span ends where the   *)
(* filename ends.                                                          *)
(***************************************************************************)
C3_ConnectedMatchEndsTheName ==
    (Detected /\ connected_search(filename) >= 0)
        => connected_search(filename) + 2 * ConnectedWidth + 2
             + ExtensionLenAt(filename,
                   connected_search(filename) + 2 * ConnectedWidth + 3, FALSE)
           = Len(filename)

(***************************************************************************)
(* C4.  The suggested name ends with the extension text the match          *)
(* consumed, letter case unchanged.                                        *)
(***************************************************************************)
C4_SuggestionKeepsMatchedExtension ==
    pc = "suggested" => /\ DetectedExtension(filename) # <<>>
                        /\ EndsWith(new_name, DetectedExtension(filename))

\* the extension text a filename ends with (a final line feed not counted),
\* <<>> when it ends with none
TrailingExtension(s) ==
    LET t == IF Len(s) > 0 /\ s[Len(s)] = "\n" THEN SubSeq(s, 1, Len(s) - 1) ELSE s
    IN  IF Len(t) >= 5 /\ IsExtensionText(SubSeq(t, Len(t) - 4, Len(t)))
        THEN SubSeq(t, Len(t) - 4, Len(t))
        ELSE IF Len(t) >= 4 /\ IsExtensionText(SubSeq(t, Len(t) - 3, Len(t)))
        THEN SubSeq(t, Len(t) - 3, Len(t))
        ELSE <<>>

(***************************************************************************)
(* C5.  The suggested name is normalize(prefix) + "_" + a + "-" + b +      *)
(* extension: normalize(prefix) is as long as prefix, has "_" where prefix *)
(* has "-" and the character of prefix everywhere else; a and b are        *)
(* copied digit for digit.  The extension is the trailing extension text   *)
(* of the filename (a line feed that ends the name is not counted), and    *)
(* empty when the filename does not end with one.                          *)
(***************************************************************************)
C5_SuggestedNameShape ==
    pc = "suggested" =>
        LET p == number_match[1]
            a == number_match[2]
            b == number_match[3]
            e == TrailingExtension(filename)
            n == Len(p)
        IN  /\ Len(new_name) = n + 1 + Len(a) + 1 + Len(b) + Len(e)
            /\ \A k \in 1..n : new_name[k] = (IF p[k] = "-" THEN "_" ELSE p[k])
            /\ new_name[n + 1] = "_"
            /\ SubSeq(new_name, n + 2, n + 1 + Len(a)) = a
            /\ new_name[n + 2 + Len(a)] = "-"
            /\ SubSeq(new_name, n + 3 + Len(a), n + 2 + Len(a) + Len(b)) = b
            /\ SubSeq(new_name, n + 3 + Len(a) + Len(b), Len(new_name)) = e

\* a prefix with a hyphen, a space, a plus and an ampersand, and an
\* extension in upper case
C5_Witness ==
    /\ pc = "suggested"
    /\ \A c \in {"-", " ", "+", "&"} :
           \E k \in 1..Len(number_match[1]) : number_match[1][k] = c
    /\ TrailingExtension(filename) = <<".", "J", "P", "G">>

\* "Green Lantern 031-0809.JPG"
GreenLantern ==
    <<"G", "r", "e", "e", "n", " ", "L", "a", "n", "t", "e", "r", "n",
      " ", "0", "3", "1", "-", "0", "8", "0", "9", ".", "J", "P", "G">>

(***************************************************************************)
(* C6.  As claimed: "Green Lantern 031-0809.JPG" gives the numbers         *)
(* ("08", "09") and the name "Green_Lantern_031_08-09.JPG".                *)
(***************************************************************************)
C6_GreenLanternWithUnderscores ==
    (filename = GreenLantern /\ pc = "suggested") =>
        /\ number_match[2] = <<"0", "8">>
        /\ number_match[3] = <<"0", "9">>
        /\ new_name =
             <<"G", "r", "e", "e", "n", "_", "L", "a", "n", "t", "e", "r", "n",
               "_", "0", "3", "1", "_", "0", "8", "-", "0", "9", ".", "J", "P",
               "G">>

(***************************************************************************)
(* C6, amended.  "Green Lantern 031-0809.JPG" gives the numbers            *)
(* ("08", "09") and the name "Green Lantern 031_08-09.JPG": the spaces of  *)
(* the prefix stay.                                                        *)
(***************************************************************************)
C6_GreenLanternKeepsSpaces ==
    (filename = GreenLantern /\ pc = "suggested") =>
        /\ number_match[2] = <<"0", "8">>
        /\ number_match[3] = <<"0", "9">>
        /\ new_name =
             <<"G", "r", "e", "e", "n", " ", "L", "a", "n", "t", "e", "r", "n",
               " ", "0", "3", "1", "_", "0", "8", "-", "0", "9", ".", "J", "P",
               "G">>

C6_Witness == filename = GreenLantern /\ pc = "suggested"

(***************************************************************************)
(* C7.  A match (prefix, a, b) decomposes the filename as                  *)
(* prefix + separator + a + join + b + rest: a and b are digit strings of  *)
(* equal length, join is one separator when the connected rule fired and   *)
(* empty when the concatenated rule fired, rest begins with an extension.  *)
(***************************************************************************)
C7_MatchDecomposesTheName ==
    Matched =>
        LET p == number_match[1]
            a == number_match[2]
            b == number_match[3]
            n == Len(p)
            j == IF ConnectedSpans(filename) # {} THEN 1 ELSE 0
        IN  /\ Len(a) = Len(b)
            /\ Len(a) > 0
            /\ AllDigits(a)
            /\ AllDigits(b)
            /\ n + 1 + Len(a) + j + Len(b) <= Len(filename)
            /\ p = SubSeq(filename, 1, n)
            /\ filename[n + 1] \in SeparatorCharacters
            /\ a = SubSeq(filename, n + 2, n + 1 + Len(a))
            /\ j = 1 => filename[n + 2 + Len(a)] \in SeparatorCharacters
            /\ b = SubSeq(filename, n + 2 + Len(a) + j, n + 1 + Len(a) + j + Len(b))
            /\ ExtensionTextAt(filename, n + 2 + Len(a) + j + Len(b)) # <<>>

\* the concatenated rule fired behind a prefix, and text follows the span
C7_Witness ==
    /\ Matched
    /\ ConnectedSpans(filename) = {}
    /\ Len(number_match[1]) > 0
    /\ Len(filename) > Len(number_match[1]) + 5
                         + Len(ExtensionTextAt(filename, Len(number_match[1]) + 6))

\* "GL57-020+021.jpg"
GL57Connected ==
    <<"G", "L", "5", "7", "-", "0", "2", "0", "+", "0", "2", "1", ".",
      "j", "p", "g">>

\* "023-1213.jpg"
Page023Concatenated ==
    <<"0", "2", "3", "-", "1", "2", "1", "3", ".", "j", "p", "g">>

\* the position where a span of one of the two forms ends the name, else 0
EndingSpan(s) ==
    LET C == {i \in ConnectedSpans(s) :
                  i + 7 + Len(ExtensionTextAt(s, i + 8)) = Len(s)}
        D == {i \in ConcatenatedSpans(s) :
                  i + 4 + Len(ExtensionTextAt(s, i + 5)) = Len(s)}
    IN  IF C \cup D = {} THEN 0 ELSE Least(C \cup D)

(***************************************************************************)
(* C8.  A filename that ends with separator + 3 digits + separator +       *)
(* 3 digits + extension, or with separator + 4 digits + extension, is      *)
(* matched; with no matching span further to the left the result is the    *)
(* text before the leading separator and the two numbers.                  *)
(***************************************************************************)
C8_EndingSpanIsMatched ==
    /\ (Detected /\ EndingSpan(filename) > 0) =>
           LET i == EndingSpan(filename)
               earlier == \E k \in 1..(i - 1) :
                              ConnectedSpanAt(filename, k) \/ ConcatenatedSpanAt(filename, k)
           IN  /\ number_match # None
               /\ ~earlier =>
                      number_match = (IF ConnectedSpanAt(filename, i)
                                      THEN ConnectedParts(filename, i)
                                      ELSE ConcatenatedParts(filename, i))
    /\ (Detected /\ filename = GL57Connected) =>
           number_match = << <<"G", "L", "5", "7">>, <<"0", "2", "0">>, <<"0", "2", "1">> >>
    /\ (Detected /\ filename = Page023Concatenated) =>
           number_match = << <<"0", "2", "3">>, <<"1", "2">>, <<"1", "3">> >>

\* a name that ends with a span whose separator is the ampersand and whose
\* extension is in mixed case
C8_Witness ==
    /\ Matched
    /\ EndingSpan(filename) > 0
    /\ filename[EndingSpan(filename)] = "&"
    /\ \E k \in 1..Len(filename) : filename[k] = "E"

NoDigitAfterSeparator(s) ==
    \A k \in 1..(Len(s) - 1) :
        ~(s[k] \in SeparatorCharacters /\ s[k + 1] \in DigitCharacters)

NoDigits(s) == \A k \in 1..Len(s) : s[k] \notin DigitCharacters

\* the name ends with .jpg, .jpeg or .png in some letter case
HasImageExtension(s) ==
    \/ (Len(s) >= 5 /\ IsExtensionText(SubSeq(s, Len(s) - 4, Len(s))))
    \/ (Len(s) >= 4 /\ IsExtensionText(SubSeq(s, Len(s) - 3, Len(s))))

(***************************************************************************)
(* C9.  No match for a string with no digit right after a separator, for   *)
(* a string with no digits, and for a string whose extension is not .jpg,  *)
(* .jpeg or .png.                                                          *)
(***************************************************************************)
C9_NoMatchWithoutDigitsOrExtension ==
    (Detected /\ (\/ NoDigitAfterSeparator(filename)
                  \/ NoDigits(filename)
                  \/ ~HasImageExtension(filename)))
        => number_match = None

\* the name put together again from the pieces of the first connected span
Rebuilt(s, m) ==
    LET i == Least(ConnectedSpans(s))
    IN  m[1] \o <<s[i]>> \o m[2] \o <<s[i + 4]>> \o m[3] \o ExtensionTextAt(s, i + 8)

(***************************************************************************)
(* C10.  Round trip: the pieces of a connected match, put together again   *)
(* as prefix + separator + a + separator + b + extension, are matched      *)
(* with the same prefix, a and b.                                          *)
(***************************************************************************)
C10_RebuiltNameIsMatchedAgain ==
    (Matched /\ ConnectedSpans(filename) # {})
        => find_double_numbers(Rebuilt(filename, number_match)) = number_match

\* text follows the connected span, so the rebuilt name is not the filename
C10_Witness ==
    /\ Matched
    /\ ConnectedSpans(filename) # {}
    /\ Rebuilt(filename, number_match) # filename

(***************************************************************************)
(* C17.  Renaming is a fixed point of detection: the name suggested for a  *)
(* matched filename is itself not matched.                                 *)
(***************************************************************************)
C17_SuggestedNameIsNotMatched ==
    pc = "suggested" => find_double_numbers(new_name) = None

(***************************************************************************)
(* Archives.  An archive is the list of its member names, in the order of  *)
(* the archive (namelist); a name is a sequence of characters, as above.   *)
(***************************************************************************)
\* how many members an archive has
MaxEntries == 3

\* the characters of the model in the order of their code points
CharacterOrder ==
    << "\n", " ", "&", "+", "-", ".", "/",
       "0", "1", "2", "3", "4", "5", "6", "7", "8", "9",
       "A", "B", "C", "D", "E", "F", "G", "H", "I", "J", "K", "L", "M",
       "N", "O", "P", "Q", "R", "S", "T", "U", "V", "W", "X", "Y", "Z",
       "_",
       "a", "b", "c", "d", "e", "f", "g", "h", "i", "j", "k", "l", "m",
       "n", "o", "p", "q", "r", "s", "t", "u", "v", "w", "x", "y", "z" >>

\* ord(c), up to the gaps between the characters of the model
code_point(c) == CHOOSE k \in 1..Len(CharacterOrder) : CharacterOrder[k] = c

\* a < b for two str values: the first differing character decides, a
\* proper prefix is smaller
RECURSIVE str_less(_, _)
str_less(a, b) ==
    IF b = <<>> THEN FALSE
    ELSE IF a = <<>> THEN TRUE
    ELSE IF Head(a) # Head(b) THEN code_point(Head(a)) < code_point(Head(b))
    ELSE str_less(Tail(a), Tail(b))

\* x put into the sorted list l, before the first element that is not smaller
RECURSIVE insert_sorted(_, _)
insert_sorted(x, l) ==
    IF l = <<>> THEN <<x>>
    ELSE IF str_less(Head(l), x) THEN <<Head(l)>> \o insert_sorted(x, Tail(l))
    ELSE <<x>> \o l

\* sorted(archive.namelist()): every element is kept, equal ones too
RECURSIVE sorted(_)
sorted(l) ==
    IF l = <<>> THEN <<>> ELSE insert_sorted(Head(l), sorted(Tail(l)))

\* filename.endswith('/') for a ZIP member; for a RAR member
\* archive.getinfo(filename).isdir(), and rarfile gives the names of
\* directory members a trailing slash
is_directory(k, name) == Len(name) > 0 /\ name[Len(name)] = "/"

\* ArchiveHandler.list_archive_contents: index -> filename, the indices
\* counted from 1 over the sorted names that are no directories
list_archive_contents(k, names) ==
    SelectSeq(sorted(names), LAMBDA name : ~is_directory(k, name))

\* member names of the archives of the model
EntryNames ==
    { <<"p", "-", "0", "1", "0", "2", ".", "j", "p", "g">>,
      <<"p", "+", "0", "1", "0", "2", ".", "j", "p", "g">>,
      <<"a", "-", "b", ".", "j", "p", "g">>,
      <<"d", "/">> }

\* no entry name is being examined
NamesIdle ==
    /\ filename = <<>>
    /\ nparts = 0
    /\ pc = "idle"
    /\ number_match = None
    /\ new_name = <<>>

InitList ==
    /\ NamesIdle
    /\ kind \in {"zip", "rar"}
    /\ namelist = <<>>
    /\ apc = "archive"
    /\ files_dict = <<>>
    /\ RequestIdle
    /\ RewriteIdle
    /\ CompareIdle
    /\ FindIdle

\* the archive, member by member; a ZIP archive takes a second member of
\* a name it already holds (zipfile only warns), a RAR archive is built
\* with distinct names
AddEntry(name) ==
    /\ apc = "archive"
    /\ Len(namelist) < MaxEntries
    /\ kind = "rar" => \A i \in DOMAIN namelist : namelist[i] # name
    /\ namelist' = Append(namelist, name)
    /\ UNCHANGED <<kind, apc, files_dict, request_vars, rewrite_vars, archive_frame>>

\* process_archive: files_dict = self.list_archive_contents(archive_path)
ListContents ==
    /\ apc = "archive"
    /\ files_dict' = list_archive_contents(kind, namelist)
    /\ apc' = "listed"
    /\ UNCHANGED <<kind, namelist, request_vars, rewrite_vars, archive_frame>>

NextList ==
    \/ \E name \in EntryNames : AddEntry(name)
    \/ ListContents

SpecList == InitList /\ [][NextList]_vars

\* b is not before a in the order of str
StrLessOrEqual(a, b) ==
    \/ a = b
    \/ \E k \in 1..Len(b) :
           /\ k - 1 <= Len(a)
           /\ SubSeq(a, 1, k - 1) = SubSeq(b, 1, k - 1)
           /\ (k > Len(a) \/ code_point(a[k]) < code_point(b[k]))

(***************************************************************************)
(* C11.  The listing has the keys 1..n without gaps, the filenames in      *)
(* ascending lexicographic order, no directory entry, and no filename      *)
(* under two different indices.                                            *)
(***************************************************************************)
C11_ListingSortedAndDeduplicated ==
    apc = "listed" =>
        /\ DOMAIN files_dict = 1..Len(files_dict)
        /\ \A i, j \in DOMAIN files_dict :
               i < j => StrLessOrEqual(files_dict[i], files_dict[j])
        /\ \A i \in DOMAIN files_dict : files_dict[i][Len(files_dict[i])] # "/"
        /\ \A i, j \in DOMAIN files_dict : files_dict[i] = files_dict[j] => i = j

(***************************************************************************)
(* process_archive: the listing, the requested changes and the rewrite of  *)
(* the archive.  An entry written to the new archive is a record of the    *)
(* name it is written under (arcname) and the extracted file it is written *)
(* from (from, the member's original name).                                *)
(***************************************************************************)
\* the archives that are processed: up to MaxEntries members, listed in
\* the order of their names
Archives(k) ==
    { l \in UNION { [1..n -> EntryNames] : n \in 1..MaxEntries } :
          /\ sorted(l) = l
          /\ k = "rar" => \A i, j \in 1..Len(l) : l[i] = l[j] => i = j }

\* number_match = self.find_double_numbers(filename) and, for a match,
\* self.suggest_new_name(filename, number_match), for every member name
suggested_name ==
    [ f \in EntryNames |->
        LET m == find_double_numbers(f) IN
            IF m = None THEN None ELSE suggest_new_name(f, m) ]

\* the for loop over files_dict.items(): filename -> new_name for every
\* listed filename that find_double_numbers matches
suggested_changes(fd) ==
    [ f \in { fd[i] : i \in { j \in DOMAIN fd : suggested_name[fd[j]] # None } }
        |-> suggested_name[f] ]

\* dict.update: the entries of more replace and extend those of d
update(d, more) ==
    [ f \in DOMAIN d \cup DOMAIN more |-> IF f \in DOMAIN more THEN more[f] ELSE d[f] ]

\* a plausible slip: the other files are normalised in every rewrite
arcname_always_normalised(f, to_rename) ==
    IF f \in DOMAIN to_rename THEN to_rename[f] ELSE replace_hyphens(f)

\* the name a file of the temporary directory is written under
arcname(f, to_rename) ==
    IF f \in DOMAIN to_rename THEN to_rename[f]
    ELSE IF DOMAIN to_rename # {} THEN replace_hyphens(f)
    ELSE f

\* str.upper and str.lower on one character
ToUpper(c) ==
    IF \E k \in 1..26 : LowerLetters[k] = c
    THEN UpperLetters[CHOOSE k \in 1..26 : LowerLetters[k] = c]
    ELSE c

upper(s) == [k \in 1..Len(s) |-> ToUpper(s[k])]

lower(s) == [k \in 1..Len(s) |-> ToLower(s[k])]

\* the whitespace of the input lines of the model
Whitespace == {" ", "\n"}

\* str.strip(): leading and trailing whitespace removed
RECURSIVE lstrip(_)
lstrip(s) ==
    IF s # <<>> /\ Head(s) \in Whitespace THEN lstrip(Tail(s)) ELSE s

RECURSIVE rstrip(_)
rstrip(s) ==
    IF s # <<>> /\ s[Len(s)] \in Whitespace
    THEN rstrip(SubSeq(s, 1, Len(s) - 1))
    ELSE s

strip(s) == rstrip(lstrip(s))

\* str.split(): the runs of characters between runs of whitespace
RECURSIVE split_from(_, _, _)
split_from(s, i, word) ==
    IF i > Len(s) THEN (IF word = <<>> THEN <<>> ELSE <<word>>)
    ELSE IF s[i] \in Whitespace
         THEN (IF word = <<>> THEN <<>> ELSE <<word>>) \o split_from(s, i + 1, <<>>)
         ELSE split_from(s, i + 1, Append(word, s[i]))

split(s) == split_from(s, 1, <<>>)

\* the digits of a token that may start with a sign
unsigned(t) == IF t # <<>> /\ t[1] \in {"+", "-"} THEN Tail(t) ELSE t

\* int(token) does not raise ValueError: an optional sign, then decimal
\* digits, single underscores allowed between digits
int_accepts(t) ==
    LET body == unsigned(t) IN
        /\ body # <<>>
        /\ \A k \in 1..Len(body) : body[k] \in Digits \cup {"_"}
        /\ body[1] \in Digits
        /\ body[Len(body)] \in Digits
        /\ \A k \in 1..(Len(body) - 1) : ~(body[k] = "_" /\ body[k + 1] = "_")

digit_value(c) == code_point(c) - code_point("0")

RECURSIVE digits_value(_, _)
digits_value(body, acc) ==
    IF body = <<>> THEN acc
    ELSE IF Head(body) = "_" THEN digits_value(Tail(body), acc)
    ELSE digits_value(Tail(body), 10 * acc + digit_value(Head(body)))

\* int(token) for a token it accepts
int(t) ==
    IF t[1] = "-" THEN 0 - digits_value(unsigned(t), 0)
    ELSE digits_value(unsigned(t), 0)

\* a plausible slip: surplus tokens after the action letter are ignored
has_command_shape_at_least_two(parts) ==
    Len(parts) >= 2 /\ parts[2] \in {<<"M">>, <<"D">>}

\* not (len(parts) != 2 or parts[1] not in {'M', 'D'})
has_command_shape(parts) ==
    Len(parts) = 2 /\ parts[2] \in {<<"M">>, <<"D">>}

\* the new name an 'M' command gives to filename, or None when the user
\* leaves "Enter new name" empty: answer and typed are the two input lines
modified_name(f, answer, typed) ==
    IF suggested_name[f] # None /\ lower(answer) = <<"y">>
    THEN suggested_name[f]
    ELSE typed

\* one round of the while loop on the command read: what it leaves in
\* files_to_rename and files_to_delete, and where it goes on
execute(c, fd, to_rename, to_delete, answer, typed) ==
    LET same == [rename |-> to_rename, delete |-> to_delete, goes |-> "listed"]
        parts == split(c)
    IN  IF c = <<>> THEN [same EXCEPT !.goes = "requested"]
        ELSE IF c = <<"X">> THEN [same EXCEPT !.goes = "exited"]
        ELSE IF c = <<"A">>
             THEN [same EXCEPT !.rename = update(to_rename, suggested_changes(fd))]
        ELSE IF ~has_command_shape(parts) THEN same
        ELSE IF ~int_accepts(parts[1]) THEN same
        ELSE IF int(parts[1]) \notin DOMAIN fd THEN same
        ELSE LET f == fd[int(parts[1])] IN
             IF parts[2] = <<"D">>
             THEN [same EXCEPT !.delete = to_delete \cup {f}]
             ELSE IF modified_name(f, answer, typed) = <<>> THEN same
             ELSE [same EXCEPT !.rename =
                       update(to_rename, [g \in {f} |-> modified_name(f, answer, typed)])]

\* the round of command c goes on to ask for a new name
asks_new_name(c, fd) ==
    LET parts == split(c) IN
        /\ has_command_shape(parts)
        /\ parts[2] = <<"M">>
        /\ int_accepts(parts[1])
        /\ int(parts[1]) \in DOMAIN fd

\* the numeral of a small number
Numeral(i) == <<CharacterOrder[code_point("0") + i]>>

\* the lines typed at "Enter command"
InputLines ==
    { <<>>, <<"x">>, <<"a", " ">>,
      <<"1">>,
      <<"1", " ", "d", " ", "d">>,
      <<"1", " ", "q">>,
      <<"q", " ", "d">>,
      <<"0", " ", "d">>,
      <<"-", "1", " ", "m">>,
      <<" ", "+", "1", " ", " ", "D">>,
      <<"1", ".", "5", " ", "m">> }
    \cup { Numeral(i) \o <<" ", "d">> : i \in 1..(MaxEntries + 1) }
    \cup { Numeral(i) \o <<" ", "M">> : i \in 1..MaxEntries }

\* the lines typed at "Use suggested name? (y/n)"; no line where the
\* round does not ask
Answers(line, fd) ==
    IF asks_new_name(upper(strip(line)), fd) THEN { <<"Y">>, <<"n">> } ELSE { <<>> }

\* the lines typed at "Enter new name"; no line where the round does not ask
TypedNames(line, fd) ==
    IF asks_new_name(upper(strip(line)), fd)
    THEN { <<>>, <<"z", "-", "1", ".", "j", "p", "g">> }
    ELSE { <<>> }

\* what the interactive loop can leave in files_to_rename when it ends:
\* listed filenames, each under its suggested name or a typed one
LoopRenames(fd) ==
    LET listed == { fd[i] : i \in DOMAIN fd }
        suggested == suggested_changes(fd)
        typed == TypedNames(<<"1", " ", "M">>, fd) \ {<<>>}
        names == [ f \in listed |->
                     IF f \in DOMAIN suggested THEN typed \cup {suggested[f]} ELSE typed ]
    IN  UNION { { r \in [D -> UNION { names[f] : f \in D }] : \A f \in D : r[f] \in names[f] } :
                    D \in SUBSET listed }

InitArchive ==
    /\ NamesIdle
    /\ kind \in {"zip", "rar"}
    /\ namelist \in Archives(kind)
    /\ apc = "start"
    /\ files_dict = <<>>
    /\ auto_mode \in BOOLEAN
    /\ files_to_rename = <<>>
    /\ files_to_delete = {}
    /\ command = <<>>
    /\ RewriteIdle
    /\ CompareIdle
    /\ FindIdle

\* files_dict = self.list_archive_contents(archive_path); an archive
\* without files is left alone
ListArchive ==
    /\ apc = "start"
    /\ files_dict' = list_archive_contents(kind, namelist)
    /\ IF files_dict' = <<>>
       THEN apc' = "exited" /\ outcome' = "returned"
       ELSE apc' = "listed" /\ UNCHANGED outcome
    /\ UNCHANGED <<kind, namelist, request_vars, archive_frame>>
    /\ UNCHANGED <<next_member, temp_dir, temp_files, original, written, logged>>

\* auto mode: every suggested change is accepted
AutoAccept ==
    /\ apc = "listed"
    /\ auto_mode
    /\ files_to_rename' = update(files_to_rename, suggested_changes(files_dict))
    /\ apc' = "requested"
    /\ UNCHANGED <<kind, namelist, files_dict, auto_mode, files_to_delete, command,
                   rewrite_vars, archive_frame>>

\* no change was requested: the archive is not rewritten
NoChanges ==
    /\ apc = "requested"
    /\ DOMAIN files_to_rename = {}
    /\ files_to_delete = {}
    /\ apc' = "exited"
    /\ outcome' = "returned"
    /\ UNCHANGED <<kind, namelist, files_dict, request_vars, archive_frame>>
    /\ UNCHANGED <<next_member, temp_dir, temp_files, original, written, logged>>

\* _process_zip / _process_rar up to the extraction loop: the archive is
\* opened for reading and its temporary directory is created
BeginRewrite ==
    /\ apc = "requested"
    /\ DOMAIN files_to_rename # {} \/ files_to_delete # {}
    /\ temp_dir' = "present"
    /\ next_member' = 1
    /\ apc' = "extracting"
    /\ UNCHANGED <<kind, namelist, files_dict, request_vars, archive_frame>>
    /\ UNCHANGED <<temp_files, original, written, outcome, logged>>

\* one round of the extraction loop: a member marked for deletion is
\* skipped, of a directory member only the parent is made, a file member
\* is copied to its path below the temporary directory
ExtractMember ==
    /\ apc = "extracting"
    /\ next_member <= Len(namelist)
    /\ LET member == namelist[next_member] IN
           temp_files' =
               IF member \notin files_to_delete /\ ~is_directory(kind, member)
               THEN temp_files \cup {member}
               ELSE temp_files
    /\ next_member' = next_member + 1
    /\ UNCHANGED <<kind, namelist, apc, files_dict, request_vars, archive_frame>>
    /\ UNCHANGED <<temp_dir, original, written, outcome, logged>>

\* a plausible slip: the error is logged but not raised again
Abort_swallowed(rmtree_fails) ==
    /\ apc' = "exited"
    /\ outcome' = "returned"
    /\ temp_dir' = IF rmtree_fails THEN "present" ELSE "removed"
    /\ logged' = logged \cup {"rewrite failed"}
                        \cup (IF rmtree_fails THEN {"cleanup failed"} ELSE {})

\* the except and finally clauses of the rewrite: the error is logged and
\* raised again, and _cleanup_temp_dir removes the temporary directory or,
\* when rmtree fails, logs that and returns
Abort(rmtree_fails) ==
    /\ apc' = "exited"
    /\ outcome' = "raised"
    /\ temp_dir' = IF rmtree_fails THEN "present" ELSE "removed"
    /\ logged' = logged \cup {"rewrite failed"}
                        \cup (IF rmtree_fails THEN {"cleanup failed"} ELSE {})

\* the extraction of a member fails (mkdir, open or copy)
ExtractFails(rmtree_fails) ==
    /\ apc = "extracting"
    /\ next_member <= Len(namelist)
    /\ namelist[next_member] \notin files_to_delete
    /\ Abort(rmtree_fails)
    /\ UNCHANGED <<kind, namelist, files_dict, request_vars, archive_frame>>
    /\ UNCHANGED <<next_member, temp_files, original, written>>

\* the new archive is opened for writing: _process_zip opens archive_path
\* itself, which empties the file; _process_rar opens the .cbz beside it
OpenNewArchive ==
    /\ apc = "extracting"
    /\ next_member > Len(namelist)
    /\ apc' = "writing"
    /\ original' = IF kind = "zip" THEN "overwritten" ELSE original
    /\ UNCHANGED <<kind, namelist, files_dict, request_vars, archive_frame>>
    /\ UNCHANGED <<next_member, temp_dir, temp_files, written, outcome, logged>>

\* one file of the os.walk over the temporary directory is written
WriteFile(f) ==
    /\ apc = "writing"
    /\ f \in temp_files
    /\ \A e \in written : e.from # f
    /\ written' = written \cup {[arcname |-> arcname(f, files_to_rename), from |-> f]}
    /\ UNCHANGED <<kind, namelist, apc, files_dict, request_vars, archive_frame>>
    /\ UNCHANGED <<next_member, temp_dir, temp_files, original, outcome, logged>>

\* writing a file fails; the with statement closes the new archive with
\* the entries written so far
WriteFails(rmtree_fails) ==
    /\ apc = "writing"
    /\ \E f \in temp_files : \A e \in written : e.from # f
    /\ Abort(rmtree_fails)
    /\ UNCHANGED <<kind, namelist, files_dict, request_vars, archive_frame>>
    /\ UNCHANGED <<next_member, temp_files, original, written>>

\* every file is written: the new archive is closed, _process_rar removes
\* the original RAR file, and the temporary directory is cleaned up
FinishRewrite(rmtree_fails) ==
    /\ apc = "writing"
    /\ \A f \in temp_files : \E e \in written : e.from = f
    /\ original' = IF kind = "rar" THEN "unlinked" ELSE original
    /\ apc' = "exited"
    /\ outcome' = "returned"
    /\ temp_dir' = IF rmtree_fails THEN "present" ELSE "removed"
    /\ logged' = logged \cup (IF rmtree_fails THEN {"cleanup failed"} ELSE {})
    /\ UNCHANGED <<kind, namelist, files_dict, request_vars, archive_frame>>
    /\ UNCHANGED <<next_member, temp_files, written>>

\* one round of the interactive loop: a command is read, and for an 'M'
\* command the answers to its two questions; 'X' leaves the program
ReadCommand(line, answer, typed) ==
    /\ apc = "listed"
    /\ ~auto_mode
    /\ command' = upper(strip(line))
    /\ LET round == execute(command', files_dict, files_to_rename, files_to_delete,
                            answer, typed)
       IN  /\ files_to_rename' = round.rename
           /\ files_to_delete' = round.delete
           /\ apc' = round.goes
           /\ outcome' = IF round.goes = "exited" THEN "exit" ELSE outcome
    /\ UNCHANGED <<kind, namelist, files_dict, auto_mode, archive_frame>>
    /\ UNCHANGED <<next_member, temp_dir, temp_files, original, written, logged>>

\* the interactive loop from its first command to the empty one: it
\* leaves renames of listed files and a set of listed files to delete
InteractiveLoop ==
    /\ apc = "listed"
    /\ ~auto_mode
    /\ files_to_rename' \in LoopRenames(files_dict)
    /\ files_to_delete' \in SUBSET { files_dict[i] : i \in DOMAIN files_dict }
    /\ command' = <<>>
    /\ apc' = "requested"
    /\ UNCHANGED <<kind, namelist, files_dict, auto_mode, rewrite_vars, archive_frame>>

NextArchive ==
    \/ ListArchive
    \/ AutoAccept
    \/ InteractiveLoop
    \/ NoChanges
    \/ BeginRewrite
    \/ ExtractMember
    \/ \E rmtree_fails \in BOOLEAN : ExtractFails(rmtree_fails)
    \/ OpenNewArchive
    \/ \E f \in EntryNames : WriteFile(f)
    \/ \E rmtree_fails \in BOOLEAN : WriteFails(rmtree_fails)
    \/ \E rmtree_fails \in BOOLEAN : FinishRewrite(rmtree_fails)

SpecArchive == InitArchive /\ [][NextArchive]_vars

\* the interactive loop of process_archive, round by round, on a listed
\* archive; the loop does not look at the kind of the archive
InitLoop ==
    /\ NamesIdle
    /\ kind = "rar"
    /\ namelist \in Archives(kind)
    /\ apc = "listed"
    /\ files_dict = list_archive_contents(kind, namelist)
    /\ files_dict # <<>>
    /\ RequestIdle
    /\ RewriteIdle
    /\ CompareIdle
    /\ FindIdle

NextLoop ==
    \E line \in InputLines :
        \E answer \in Answers(line, files_dict), typed \in TypedNames(line, files_dict) :
            ReadCommand(line, answer, typed)

SpecLoop == InitLoop /\ [][NextLoop]_vars

\* what the loop has gathered is a request the rewrite is run on
LoopRequest ==
    /\ files_to_rename \in LoopRenames(files_dict)
    /\ files_to_delete \subseteq { files_dict[i] : i \in DOMAIN files_dict }
    /\ ~auto_mode

(***************************************************************************)
(* Vocabulary of the claims about process_archive.                         *)
(***************************************************************************)
\* the names of the archive's members that are files
FileMembers == { namelist[i] : i \in { j \in DOMAIN namelist : namelist[j][Len(namelist[j])] # "/" } }

\* a rewrite of the archive ran to its end without an error
Rewritten == apc = "exited" /\ outcome = "returned" /\ temp_dir # "none"

\* a rewrite of the archive was begun and the method has exited
RewriteExited == apc = "exited" /\ temp_dir # "none"

\* t is s with each hyphen replaced by an underscore
IsUnderscored(t, s) ==
    /\ Len(t) = Len(s)
    /\ \A k \in 1..Len(s) : (s[k] = "-" => t[k] = "_") /\ (s[k] # "-" => t[k] = s[k])

\* the new archive holds the file f under the name t
WrittenAs(f, t) == \E e \in written : e.from = f /\ e.arcname = t

Renamed == DOMAIN files_to_rename \ files_to_delete

Others == FileMembers \ (DOMAIN files_to_rename \cup files_to_delete)

\* the entries of the new archive come from distinct surviving files
WrittenFromSurvivors ==
    /\ { e.from : e \in written } = FileMembers \ files_to_delete
    /\ \A e1, e2 \in written : e1.from = e2.from => e1 = e2

(***************************************************************************)
(* C12 as stated.  After a rewrite no deleted entry is in the new archive, *)
(* each renamed entry is there under its new name, and every other file    *)
(* entry is there under its original name with each hyphen replaced by an  *)
(* underscore, also when only deletions were requested.                    *)
(***************************************************************************)
C12_OthersNormalisedInEveryRewrite ==
    Rewritten =>
        /\ WrittenFromSurvivors
        /\ \A f \in Renamed : WrittenAs(f, files_to_rename[f])
        /\ \A f \in Others : \E t \in {e.arcname : e \in written} :
               WrittenAs(f, t) /\ IsUnderscored(t, f)

(***************************************************************************)
(* C12, amended.  After a rewrite no deleted entry is in the new archive,  *)
(* each renamed entry that is not deleted is there under its new name, and *)
(* every other file entry is there once: with each hyphen replaced by an   *)
(* underscore when at least one rename was requested, under its unchanged  *)
(* original name when only deletions were requested.                       *)
(***************************************************************************)
C12_OthersNormalisedOnlyWithRenames ==
    Rewritten =>
        /\ WrittenFromSurvivors
        /\ \A f \in Renamed : WrittenAs(f, files_to_rename[f])
        /\ \A f \in Others :
               IF DOMAIN files_to_rename # {}
               THEN \E t \in {e.arcname : e \in written} :
                        WrittenAs(f, t) /\ IsUnderscored(t, f)
               ELSE WrittenAs(f, f)

\* a rewrite with deletions only has kept a hyphen in a surviving name, and
\* a rewrite with a deletion and a rename has normalised a third name
C12_Witness ==
    /\ Rewritten
    /\ files_to_delete # {}
    /\ \/ /\ DOMAIN files_to_rename = {}
          /\ \E f \in Others : WrittenAs(f, f) /\ \E k \in 1..Len(f) : f[k] = "-"
       \/ /\ Renamed # {}
          /\ \E f \in Others : ~WrittenAs(f, f)

\* the command cannot be parsed: it is none of the empty command, X and A,
\* and not an index of the listing, a gap and one of the letters M and D
IndexTokens(i) ==
    LET d == <<"1", "2", "3", "4", "5", "6", "7", "8", "9">>[i] IN
        { <<d>>, <<"+", d>>, <<"0", d>>, <<"+", "0", d>> }

ParsableCommands(fd) ==
    { t \o gap \o <<a>> :
          t \in UNION { IndexTokens(i) : i \in DOMAIN fd },
          gap \in { <<" ">>, <<" ", " ">> },
          a \in {"M", "D"} }

Unparsable(c, fd) ==
    /\ c \notin { <<>>, <<"X">>, <<"A">> }
    /\ c \notin ParsableCommands(fd)

(***************************************************************************)
(* C13.  A round of the interactive loop that reads a command that cannot  *)
(* be parsed leaves files_to_rename and files_to_delete as they were, and  *)
(* the loop goes on to read the next command.                              *)
(***************************************************************************)
C13_UnparsableCommandChangesNothing ==
    [][ (apc = "listed" /\ ~auto_mode /\ Unparsable(command', files_dict)) =>
            /\ files_to_rename' = files_to_rename
            /\ files_to_delete' = files_to_delete
            /\ apc' = "listed" ]_vars

\* after commands that asked for a rename and a deletion, a command that
\* cannot be parsed was read and the loop is reading again
C13_Witness ==
    /\ apc = "listed"
    /\ ~auto_mode
    /\ Unparsable(command, files_dict)
    /\ DOMAIN files_to_rename # {}
    /\ files_to_delete # {}

\* the rewrite was stopped by an error while members were extracted
StoppedExtracting == outcome = "raised" /\ next_member <= Len(namelist)

\* the rewrite was stopped by an error while the new archive was written
StoppedWriting == outcome = "raised" /\ next_member > Len(namelist)

\* an error is reported and propagated, and no step after it has run
ErrorStopsRewrite ==
    /\ "rewrite failed" \in logged <=> outcome = "raised"
    /\ StoppedExtracting => original = "intact" /\ written = {}
    /\ StoppedWriting =>
           /\ original # "unlinked"
           /\ \E f \in temp_files : \A e \in written : e.from # f

(***************************************************************************)
(* C14 as stated.  When a rewrite that had created its temporary directory *)
(* exits, by an error or by success, an error has been reported and        *)
(* propagated, no later step has run, and the temporary directory has      *)
(* been removed.                                                           *)
(***************************************************************************)
C14_TempDirRemovedOnEveryExit ==
    RewriteExited => ErrorStopsRewrite /\ temp_dir = "removed"

(***************************************************************************)
(* C14, amended.  When a rewrite that had created its temporary directory  *)
(* exits, by an error or by success, an error has been reported and        *)
(* propagated, no later step has run, and the temporary directory has      *)
(* been removed unless its removal itself failed; that failure is logged   *)
(* and does not change how the method exits.                               *)
(***************************************************************************)
C14_TempDirRemovedUnlessRemovalFails ==
    RewriteExited =>
        /\ ErrorStopsRewrite
        /\ temp_dir = "removed" <=> "cleanup failed" \notin logged
        /\ outcome \in {"raised", "returned"}

\* an error stopped the rewrite and the removal of the temporary directory
\* failed as well
C14_Witness ==
    /\ RewriteExited
    /\ outcome = "raised"
    /\ temp_dir = "present"
    /\ logged = {"rewrite failed", "cleanup failed"}

(***************************************************************************)
(* C18.  In auto mode, for an archive whose member names are distinct, a   *)
(* rewrite writes no two entries under the same name.                      *)
(***************************************************************************)
C18_AutoModeWritesDistinctNames ==
    ( /\ auto_mode
      /\ Rewritten
      /\ \A i, j \in DOMAIN namelist : namelist[i] = namelist[j] => i = j )
    => \A e1, e2 \in written : e1.arcname = e2.arcname => e1 = e2

(***************************************************************************)
(* C19.  When _process_zip has failed, the file at archive_path still      *)
(* holds the original archive.                                             *)
(***************************************************************************)
C19_FailedZipRewriteKeepsOriginal ==
    (kind = "zip" /\ RewriteExited /\ outcome = "raised") => original = "intact"

(***************************************************************************)
(* compare_json_files (cleanup_json_dc++.py).  An entry of a file list is  *)
(* a record of its name and its TTH hash; of the three other lists only    *)
(* the hashes are looked at, so each is the set of its hashes.  A dict     *)
(* keyed by hash is the sequence of its values in insertion order.         *)
(***************************************************************************)
\* how many entries the list 'mine' has
MaxMine == 3

FileNames == {"a", "b"}

Hashes == {"T1", "T2"}

FileEntries == [name : FileNames, tth : Hashes]

Categories == {"unique_to_mine", "in_first", "in_second", "in_third", "in_all"}

\* d[entry.tth] = entry: a new key is appended, the value of a key that is
\* there is replaced in place
put(d, entry) ==
    IF \E k \in DOMAIN d : d[k].tth = entry.tth
    THEN [k \in DOMAIN d |-> IF d[k].tth = entry.tth THEN entry ELSE d[k]]
    ELSE Append(d, entry)

\* {entry.tth: entry for entry in entries}, on top of d
RECURSIVE by_tth(_, _)
by_tth(entries, d) ==
    IF entries = <<>> THEN d ELSE by_tth(Tail(entries), put(d, Head(entries)))

\* the if/elif chain of the comparison loop
category(tth, first_keys, second_keys, third_keys) ==
    IF tth \in first_keys /\ tth \in second_keys /\ tth \in third_keys THEN "in_all"
    ELSE IF tth \in first_keys THEN "in_first"
    ELSE IF tth \in second_keys THEN "in_second"
    ELSE IF tth \in third_keys THEN "in_third"
    ELSE "unique_to_mine"

\* the result dict: each category lists its entries in the order of
\* mine_entries.items()
compare_json_files(mine, first_keys, second_keys, third_keys) ==
    LET mine_entries == by_tth(mine, <<>>) IN
        [ c \in Categories |->
            SelectSeq(mine_entries,
                      LAMBDA entry : category(entry.tth, first_keys, second_keys, third_keys) = c) ]

InitCompare ==
    /\ NamesIdle
    /\ ArchiveIdle
    /\ RequestIdle
    /\ RewriteIdle
    /\ FindIdle
    /\ mine_list = <<>>
    /\ first_entries \in SUBSET Hashes
    /\ second_entries \in SUBSET Hashes
    /\ third_entries \in SUBSET Hashes
    /\ result = <<>>
    /\ cpc = "files"

\* the file at mine_path, entry by entry
AddMineEntry(entry) ==
    /\ cpc = "files"
    /\ Len(mine_list) < MaxMine
    /\ mine_list' = Append(mine_list, entry)
    /\ UNCHANGED <<first_entries, second_entries, third_entries, result, cpc, compare_frame>>

Compare ==
    /\ cpc = "files"
    /\ result' = compare_json_files(mine_list, first_entries, second_entries, third_entries)
    /\ cpc' = "compared"
    /\ UNCHANGED <<mine_list, first_entries, second_entries, third_entries, compare_frame>>

NextCompare ==
    \/ \E entry \in FileEntries : AddMineEntry(entry)
    \/ Compare

SpecCompare == InitCompare /\ [][NextCompare]_vars

\* the entry is in the list of the category
Listed(entry, c) == \E k \in DOMAIN result[c] : result[c][k] = entry

(***************************************************************************)
(* C15.  'unique_to_mine' holds every entry of 'mine' whose hash is in     *)
(* none of the three other lists and no other entry, and every entry of    *)
(* 'mine' is in exactly one of the five categories.                        *)
(***************************************************************************)
C15_EveryEntryInOneCategory ==
    cpc = "compared" =>
        /\ \A entry \in FileEntries :
               Listed(entry, "unique_to_mine") <=>
                   /\ \E i \in DOMAIN mine_list : mine_list[i] = entry
                   /\ entry.tth \notin first_entries \cup second_entries \cup third_entries
        /\ \A i \in DOMAIN mine_list :
               Cardinality({ c \in Categories : Listed(mine_list[i], c) }) = 1

(***************************************************************************)
(* find_file_path (cleanup_json_dc++.py).  executor.map submits one call   *)
(* of find_file_path_in_root per root folder; the pool runs them on its    *)
(* worker threads, which finish in any order, while the caller reads the   *)
(* results from the iterator that map returned.  A root folder is its      *)
(* index in ROOT_FOLDERS, the path found under root i is <<i>>.            *)
(***************************************************************************)
\* len(ROOT_FOLDERS) in the model
NumRoots == 3

\* the limit on the worker threads in the model
PoolLimit == 2

\* max_workers=min(len(ROOT_FOLDERS), 8)
max_workers == IF NumRoots < PoolLimit THEN NumRoots ELSE PoolLimit

\* a plausible slip: the results are read as the workers finish, as
\* concurrent.futures.as_completed yields them
result_source_as_completed(k, order) == IF k <= Len(order) THEN order[k] ELSE 0

\* the call whose result the iterator of executor.map yields as its k-th:
\* the calls in the order of ROOT_FOLDERS, whatever the order in which
\* they finished
result_source(k, order) == k

InitFind ==
    /\ NamesIdle
    /\ ArchiveIdle
    /\ RequestIdle
    /\ RewriteIdle
    /\ CompareIdle
    /\ found \in [1..NumRoots -> BOOLEAN]
    /\ task = [i \in 1..NumRoots |-> "queued"]
    /\ finished = <<>>
    /\ next_result = 1
    /\ path = None
    /\ fpc = "searching"

\* a free worker thread takes the next call from the queue of the pool
StartTask(i) ==
    /\ task[i] = "queued"
    /\ \A j \in 1..(i - 1) : task[j] # "queued"
    /\ Cardinality({ j \in 1..NumRoots : task[j] = "running" }) < max_workers
    /\ task' = [task EXCEPT ![i] = "running"]
    /\ UNCHANGED <<found, finished, next_result, path, fpc, find_frame>>

\* find_file_path_in_root returns for root i: the path it found, or None
FinishTask(i) ==
    /\ task[i] = "running"
    /\ task' = [task EXCEPT ![i] = "done"]
    /\ finished' = Append(finished, i)
    /\ UNCHANGED <<found, next_result, path, fpc, find_frame>>

\* one round of "for result in results": the next result is there; a path
\* is returned, None goes on to the next result, and after the last one
\* None is returned
TakeResult ==
    /\ fpc = "searching"
    /\ LET i == result_source(next_result, finished) IN
           /\ i \in 1..NumRoots
           /\ task[i] = "done"
           /\ IF found[i]
              THEN path' = <<i>> /\ fpc' = "returned" /\ UNCHANGED next_result
              ELSE IF next_result = NumRoots
                   THEN path' = None /\ fpc' = "returned" /\ UNCHANGED next_result
                   ELSE next_result' = next_result + 1 /\ UNCHANGED <<path, fpc>>
    /\ UNCHANGED <<found, task, finished, find_frame>>

NextFind ==
    \/ \E i \in 1..NumRoots : StartTask(i)
    \/ \E i \in 1..NumRoots : FinishTask(i)
    \/ TakeResult

SpecFind == InitFind /\ [][NextFind]_vars

\* the root folders that contain the file
Containing == { i \in DOMAIN found : found[i] }

\* the worker on root j finished before the worker on root i
FinishedBefore(j, i) ==
    \E m, n \in DOMAIN finished : m < n /\ finished[m] = j /\ finished[n] = i

(***************************************************************************)
(* C16.  Whatever the order in which the workers finish, find_file_path    *)
(* returns the path found under the earliest root folder of ROOT_FOLDERS   *)
(* that contains the file, and None exactly when no root folder contains   *)
(* it.                                                                     *)
(***************************************************************************)
C16_EarliestRootWhateverTheFinishingOrder ==
    fpc = "returned" =>
        IF Containing = {}
        THEN path = <<>>
        ELSE \E i \in Containing : path = <<i>> /\ \A j \in Containing : i <= j

\* the path of a root folder was returned although the worker on a later
\* root folder that contains the file had finished first
C16_Witness ==
    /\ fpc = "returned"
    /\ \E i, j \in Containing : i < j /\ path = <<i>> /\ FinishedBefore(j, i)

====
